---- MODULE Spec2Model ----
(***************************************************************************)
(* A model of the hyperbolic tiling viewer: the fragment-table parser, the *)
(* recursive tile traversal and the mesh output of src/src/tiling.rs, the  *)
(* camera of src/src/camera.rs with the translation matrix, the tracking   *)
(* controller and the depth keys of src/src/lib.rs, and the config mutex   *)
(* of src/src/surface.rs.                                                  *)
(*                                                                         *)
(* Option<T> values are sequences: <<>> is None and <<v>> is Some(v).      *)
(* Rust indices are 0-based, TLA+ sequences 1-based: data[id] of the code  *)
(* is data[id + 1] here.                                                   *)
(***************************************************************************)
EXTENDS Integers, Sequences, FiniteSets, TLC

VARIABLES
    text,       \* the definition text given to TilingGenerator::new
    data,       \* TilingGenerator.data: the fragment table
    pc,         \* "idle" | "run" | "done" | "panic": where generate is
    fault,      \* which panic ended the program ("none" while it runs)
    depth,      \* the depth argument of the current generate call
    ncolors,    \* colors.len() of the current generate call
    stack,      \* the activation records of layer, the root call first
    emitted,    \* the (id, placement) pairs given to the push closure
    vertex,     \* vertex.len() of the current generate call
    index,      \* the index Vec of generate, a block per tile: its offset idx
    prev,       \* Option: depth and tiles of the previous completed generate
    value,      \* CameraController.value: Option of the last pointer position
    transform,  \* CameraTracker.transform
    viewport,   \* CameraTracker.viewport
    config,     \* Surface.config: width and height
    drags,      \* history: the drag steps that produced a delta, oldest first
    applied,    \* the translations applied and not yet undone, oldest first
    product,    \* the product of the translation matrices applied so far
    undone,     \* Option: the translation undone last
    variant,    \* "plain" (camera.rs) | "tracking" (lib.rs): the CameraController
    track,      \* CameraController.track of the tracking controller
    moves,      \* history: the positions given to update in the current drag
    ret,        \* Option: the delta returned by update, <<>> after other calls
    checked,    \* whether the build checks integer overflow (debug) or wraps
    ups,        \* history: the depth-increase key presses handled
    downs,      \* history: the depth-decrease key presses handled
    holder,     \* the thread holding the config mutex, 0 when it is free
    tpc,        \* per thread: where it is in resize, size or aspect_ratio
    tlocal,     \* per thread: the argument of resize, the fields read so far
    written,    \* history: the sizes given to Surface::new and to resize
    seen        \* Option: what the last size or aspect_ratio call returned

tilingVars == <<text, data, pc, fault, depth, ncolors, stack, emitted, vertex,
               index, prev>>
cameraVars == <<value, transform, viewport, config, drags>>
numVars == <<applied, product, undone>>
controlVars == <<variant, track, moves, ret>>
loopVars == <<checked, ups, downs>>
surfaceVars == <<holder, tpc, tlocal, written, seen>>
otherVars == <<numVars, controlVars, loopVars, surfaceVars>>
vars == <<text, data, pc, fault, depth, ncolors, stack, emitted, vertex, index,
          prev,
          value, transform, viewport, config, drags,
          applied, product, undone, variant, track, moves, ret,
          checked, ups, downs, holder, tpc, tlocal, written, seen>>

-----------------------------------------------------------------------------
(* Bounds of the model.                                                    *)

MaxDepth == 3
MaxColors == 3
MaxCell == 2
MaxDrags == 2
MaxCoord == 12
MaxNest == 2
MaxMoves == 3
MaxKeys == 6
NumThreads == 2

\* The threads that call into the Surface, and the locals of an idle one.
Threads == 1..NumThreads
NoLocal == [op |-> "none", size |-> <<0, 0>>, w |-> 0, h |-> 0]

(* Constants of the program.                                               *)

Sides == 4
ParentSide == 2
U16Max == 65535
Radix == 10
Subdiv == 10
LastVertex == 39
InitialDepth == 5

-----------------------------------------------------------------------------
(* Strings, as the standard library treats them.                           *)

Char(s, i) == SubSeq(s, i, i)

Min(S) == CHOOSE m \in S : \A n \in S : m <= n

\* str::find of a one-character pattern: the first position, 0 when absent.
IndexOf(s, c) ==
    LET hits == {i \in 1..Len(s) : Char(s, i) = c}
    IN  IF hits = {} THEN 0 ELSE Min(hits)

\* str::split(c): n separators give n + 1 pieces, empty pieces included.
RECURSIVE Split(_, _)
Split(s, c) ==
    LET k == IndexOf(s, c)
    IN  IF k = 0 THEN <<s>>
        ELSE <<SubSeq(s, 1, k - 1)>> \o Split(SubSeq(s, k + 1, Len(s)), c)

\* A line ending "\r\n" loses the "\r" as well.
StripCR(l) ==
    IF Len(l) > 0 /\ Char(l, Len(l)) = "\r" THEN SubSeq(l, 1, Len(l) - 1) ELSE l

\* str::lines(): the pieces between "\n"; a final empty piece is no line.
Lines(s) ==
    LET p == Split(s, "\n")
        n == Len(p)
        q == [k \in 1..n |-> IF k < n THEN StripCR(p[k]) ELSE p[k]]
    IN  IF p[n] = "" THEN SubSeq(q, 1, n - 1) ELSE q

\* str::split_once('+').unwrap_or((v, "0"))
SplitOnce(v) ==
    LET k == IndexOf(v, "+")
    IN  IF k = 0 THEN <<v, "0">>
        ELSE <<SubSeq(v, 1, k - 1), SubSeq(v, k + 1, Len(v))>>

IsSpace(c) == c \in {" ", "\t", "\r", "\n"}

RECURSIVE TrimStart(_)
TrimStart(s) ==
    IF Len(s) > 0 /\ IsSpace(Char(s, 1)) THEN TrimStart(SubSeq(s, 2, Len(s))) ELSE s

RECURSIVE TrimEnd(_)
TrimEnd(s) ==
    IF Len(s) > 0 /\ IsSpace(Char(s, Len(s)))
    THEN TrimEnd(SubSeq(s, 1, Len(s) - 1)) ELSE s

\* str::trim()
Trim(s) == TrimEnd(TrimStart(s))

Digits == "0123456789"

IsDigit(c) == IndexOf(Digits, c) # 0

RECURSIVE NumVal(_)
NumVal(s) ==
    IF Len(s) = 0 THEN 0
    ELSE NumVal(SubSeq(s, 1, Len(s) - 1)) * Radix + (IndexOf(Digits, Char(s, Len(s))) - 1)

\* str::parse::<u16>().ok(): an optional "+", then one or more digits, the
\* value at most u16::MAX; anything else is None.
ParseU16(s) ==
    LET body == IF Len(s) > 0 /\ Char(s, 1) = "+" THEN SubSeq(s, 2, Len(s)) ELSE s
    IN  IF Len(body) = 0 \/ \E i \in 1..Len(body) : ~IsDigit(Char(body, i)) THEN <<>>
        ELSE IF NumVal(body) > U16Max THEN <<>>
        ELSE <<NumVal(body)>>

-----------------------------------------------------------------------------
(* Fragment::parse and TilingGenerator::new.                               *)

\* NeighborId with the default of map_or taken for an id: an unparsed token
\* names fragment 0.
NeighborId_noneIsFragmentZero(a) ==
    LET v == ParseU16(Trim(a))
    IN  IF v = <<>> THEN 1 ELSE (v[1] + 1) % (U16Max + 1)

\* a.trim().parse::<u16>().ok().map_or(0, |v| v + 1), the sum in u16
\* arithmetic as a build without overflow checks computes it.
NeighborId(a) ==
    LET v == ParseU16(Trim(a))
    IN  IF v = <<>> THEN 0 ELSE (v[1] + 1) % (U16Max + 1)

\* b.trim().parse::<u16>().ok().unwrap_or(0)
RotationOffset(b) ==
    LET v == ParseU16(Trim(b))
    IN  IF v = <<>> THEN 0 ELSE v[1]

\* One branch token to its (neighbor id + 1, rotation offset) pair.
BranchOf(v) ==
    LET ab == SplitOnce(v)
    IN  <<NeighborId(ab[1]), RotationOffset(ab[2])>>

\* Fragment::parse: an Option<Fragment>.
FragmentParse(s) ==
    LET tok == Split(s, ",")
    IN  <<[branch |-> [k \in 1..Len(tok) |-> BranchOf(tok[k])]]>>

\* Iterator::filter_map(f).collect() over a sequence.
RECURSIVE FilterMap(_)
FilterMap(opts) ==
    IF opts = <<>> THEN <<>> ELSE Head(opts) \o FilterMap(Tail(opts))

\* The data field TilingGenerator::new builds.
NewData(s) ==
    LET ls == Lines(s)
    IN  FilterMap([k \in 1..Len(ls) |-> FragmentParse(ls[k])])

\* v + 1 overflows u16 in some token of the text: a build with overflow
\* checks panics in new, one without wraps the sum to 0.
Overflows(s) ==
    LET ls == Lines(s)
    IN  \E k \in 1..Len(ls) :
            LET tok == Split(ls[k], ",")
            IN  \E j \in 1..Len(tok) :
                    ParseU16(Trim(SplitOnce(tok[j])[1])) = <<U16Max>>

-----------------------------------------------------------------------------
(* The definition texts the model loads.                                   *)

TextAllZero  == "0,0,0,0"
TextAllEmpty == ",,,"
TextSelfRef  == "1,1,1,1\n1,1,1,1"
TextNone     == ""
TextShort    == "0"
TextBeyond   == "1,,,\n"
TextGarbled  == "x,0,0,0\n,,,"
TextRotated  == " 1+1 ,,2+ 3,\r\n,0++2,,1\n2,,,"
TextOverflow == "65535,,,"

TextLeaf == "1,,,\n,,,"
Texts == {TextAllZero, TextAllEmpty, TextSelfRef, TextNone, TextShort,
          TextBeyond, TextGarbled, TextRotated, TextOverflow}

-----------------------------------------------------------------------------
(* The traversal: State::iter, layer and TilingGenerator::generate.        *)
(*                                                                         *)
(* A placement is the product of the side transforms along the path from   *)
(* the root, kept as the word of its factors: <<>> is Matrix3::one() and   *)
(* Append(tr, i) is tr * (rotation_matrix^i * forward_transform).          *)

One == <<>>

\* tr * tr1, where tr1 is the i-th item of State::iter.
Compose(tr, i) == Append(tr, i)

\* The push closure of generate: one more tile in the output.
Push(em, id, tr) == Append(em, [id |-> id, tr |-> tr])

\* The vertices of generate_tile(side, subdiv): four loops of subdiv pushes.
TileVertices == 4 * Subdiv

\* Entry t (from 0) of the index list of generate_tile: the loop over
\* i in 0..2 * subdiv appends i + 1, i, j, i + 1, j, j - 1 with j = 39 - i.
TileIndexAt(t) ==
    LET i == t \div 6
        j == LastVertex - i
    IN  CASE t % 6 = 0 -> i + 1
          [] t % 6 = 1 -> i
          [] t % 6 = 2 -> j
          [] t % 6 = 3 -> i + 1
          [] t % 6 = 4 -> j
          [] t % 6 = 5 -> j - 1

\* self.tile.index
TileIndex == [t \in 1..(6 * 2 * Subdiv) |-> TileIndexAt(t - 1)]

\* Offset that leaves the index of the tile as it is.
Offset_none(idx, i) == i

\* The map |&i| idx + i over the indices of the tile.
Offset(idx, i) == idx + i

\* vertex.extend_from_slice(&v): one vertex per vertex of the tile.
PushVertex(vx) == vx + TileVertices

\* index.extend_from_slice(&i): the block of the tile, offset by idx.
PushIndex(ix, idx) == Append(ix, idx)

\* The indices of block k of the index Vec, oldest block first.
IndexBlock(ix, k) == [t \in 1..Len(TileIndex) |-> Offset(ix[k], TileIndex[t])]

\* Considered without the filter: every instance considers every side.
Considered_everySide(id, i) == TRUE

\* The first filter of layer: the sides an instance of fragment id considers.
Considered(id, i) == id = 0 \/ i # ParentSide

\* BranchIndex with the remaining depth taken for the rotation.
BranchIndex_byLayers(f, i) == (i + f.layers) % Sides

\* The index into the branch list for side i of frame f.
BranchIndex(f, i) == (i + f.rot) % Sides

\* state.data[id] and .branch[k] are bounds-checked: out of range they panic.
FragmentInRange(d, id) == id < Len(d)
BranchInRange(d, id, k) == k < Len(d[id + 1].branch)
Branch(d, id, k) == d[id + 1].branch[k + 1]

\* RootCall with the traversal started at fragment 1.
RootCall_fragmentOne(dep) ==
    [tr |-> <<>>, id |-> 1, rot |-> 0, layers |-> dep, i |-> 0, looked |-> {}]

\* The arguments of the first call of layer, made by generate.
RootCall(dep) ==
    [tr |-> One, id |-> 0, rot |-> 0, layers |-> dep, i |-> 0, looked |-> {}]

\* ChildCall with the remaining depth passed on undiminished.
ChildCall_sameLayers(f, i, e) ==
    [tr |-> Append(f.tr, i), id |-> e[1] - 1, rot |-> e[2],
     layers |-> f.layers, i |-> 0, looked |-> {}]

\* ChildCall with the caller's rotation handed on in place of the entry's.
ChildCall_keepsRotation(f, i, e) ==
    [tr |-> Append(f.tr, i), id |-> e[1] - 1, rot |-> f.rot,
     layers |-> f.layers - 1, i |-> 0, looked |-> {}]

\* The arguments of the call layer makes across side i for entry e = (c, o).
ChildCall(f, i, e) ==
    [tr |-> Compose(f.tr, i), id |-> e[1] - 1, rot |-> e[2],
     layers |-> f.layers - 1, i |-> 0, looked |-> {}]

\* A call of layer with arguments f below the activations st, colors holding
\* nc entries: it pushes the tile (colors[id] is bounds-checked) and, unless layers is 0, starts its
\* iteration over the sides.
LayerCall(st, em, vx, ix, f, nc) ==
    IF f.id >= nc
    THEN /\ pc' = "panic"
         /\ fault' = "colors"
         /\ stack' = st
         /\ emitted' = em
         /\ vertex' = vx
         /\ index' = ix
    ELSE /\ emitted' = Push(em, f.id, f.tr)
         /\ vertex' = PushVertex(vx)
         /\ index' = PushIndex(ix, vx)
         /\ fault' = fault
         /\ IF f.layers # 0
            THEN stack' = Append(st, f) /\ pc' = "run"
            ELSE stack' = st /\ pc' = IF st = <<>> THEN "done" ELSE "run"

Top == stack[Len(stack)]

\* The activations with the top one moved on to its next side.
Advance(looks) ==
    [stack EXCEPT ![Len(stack)] =
        [@ EXCEPT !.i = @ + 1,
                  !.looked = IF looks THEN @ \cup {Top.i} ELSE @]]

Tiles(em) == {em[k] : k \in 1..Len(em)}

\* The call generate(colors, dep) up to its first push.
GenerateCall(dep, nc) ==
    /\ depth' = dep
    /\ ncolors' = nc
    /\ prev' = IF pc = "done"
               THEN <<[depth |-> depth, count |-> Len(emitted), tiles |-> Tiles(emitted)]>>
               ELSE prev
    /\ LayerCall(<<>>, <<>>, 0, <<>>, RootCall(dep), nc)
    /\ UNCHANGED <<text, data>>

\* TilingGenerator::generate(colors, dep) on an idle generator.
Generate(dep, nc) ==
    /\ pc \in {"idle", "done"}
    /\ GenerateCall(dep, nc)
    /\ UNCHANGED <<cameraVars, otherVars>>

\* The side facing the parent is filtered out before any lookup.
SideSkipped ==
    /\ pc = "run"
    /\ Top.i < Sides
    /\ ~Considered(Top.id, Top.i)
    /\ stack' = Advance(FALSE)
    /\ UNCHANGED <<text, data, pc, fault, depth, ncolors, emitted, vertex, index, prev>>
    /\ UNCHANGED <<cameraVars, otherVars>>

\* The lookup of a considered side indexes past the table or the branch list.
SideLookupPanics ==
    /\ pc = "run"
    /\ Top.i < Sides
    /\ Considered(Top.id, Top.i)
    /\ \/ ~FragmentInRange(data, Top.id) /\ fault' = "fragment"
       \/ /\ FragmentInRange(data, Top.id)
          /\ ~BranchInRange(data, Top.id, BranchIndex(Top, Top.i))
          /\ fault' = "branch"
    /\ pc' = "panic"
    /\ UNCHANGED <<text, data, depth, ncolors, stack, emitted, vertex, index,
                 prev>>
    /\ UNCHANGED <<cameraVars, otherVars>>

\* The entry of a considered side is (0, _): the second filter drops it.
SideNoNeighbor ==
    /\ pc = "run"
    /\ Top.i < Sides
    /\ Considered(Top.id, Top.i)
    /\ FragmentInRange(data, Top.id)
    /\ BranchInRange(data, Top.id, BranchIndex(Top, Top.i))
    /\ Branch(data, Top.id, BranchIndex(Top, Top.i))[1] = 0
    /\ stack' = Advance(TRUE)
    /\ UNCHANGED <<text, data, pc, fault, depth, ncolors, emitted, vertex, index, prev>>
    /\ UNCHANGED <<cameraVars, otherVars>>

\* The entry of a considered side names a neighbor: layer calls itself.
SideRecurse ==
    /\ pc = "run"
    /\ Top.i < Sides
    /\ Considered(Top.id, Top.i)
    /\ FragmentInRange(data, Top.id)
    /\ BranchInRange(data, Top.id, BranchIndex(Top, Top.i))
    /\ Branch(data, Top.id, BranchIndex(Top, Top.i))[1] # 0
    /\ LayerCall(Advance(TRUE), emitted, vertex, index,
                 ChildCall(Top, Top.i, Branch(data, Top.id, BranchIndex(Top, Top.i))),
                 ncolors)
    /\ UNCHANGED <<text, data, depth, ncolors, prev>>
    /\ UNCHANGED <<cameraVars, otherVars>>

\* The iteration over the sides is exhausted: this call of layer returns.
LayerReturn ==
    /\ pc = "run"
    /\ Top.i = Sides
    /\ stack' = SubSeq(stack, 1, Len(stack) - 1)
    /\ pc' = IF Len(stack) = 1 THEN "done" ELSE "run"
    /\ UNCHANGED <<text, data, fault, depth, ncolors, emitted, vertex, index, prev>>
    /\ UNCHANGED <<cameraVars, otherVars>>

-----------------------------------------------------------------------------
(* Matrices and the translation of src/src/lib.rs.                         *)
(*                                                                         *)
(* A matrix is the tuple of its columns, as cgmath stores it.  The f64     *)
(* arithmetic of the code is modelled exactly, on the inputs whose results *)
(* are integers; rounding is outside the model.                            *)

Identity3 == << <<1, 0, 0>>, <<0, 1, 0>>, <<0, 0, 1>> >>
Identity4 == << <<1, 0, 0, 0>>, <<0, 1, 0, 0>>, <<0, 0, 1, 0>>, <<0, 0, 0, 1>> >>

\* Matrix3 * Matrix3: column j of the product is a applied to column j of b.
Mul3(a, b) ==
    [j \in 1..3 |-> [i \in 1..3 |->
        a[1][i] * b[j][1] + a[2][i] * b[j][2] + a[3][i] * b[j][3]]]

\* Matrix4 * Matrix4
Mul4(a, b) ==
    [j \in 1..4 |-> [i \in 1..4 |->
        a[1][i] * b[j][1] + a[2][i] * b[j][2] + a[3][i] * b[j][3] + a[4][i] * b[j][4]]]

\* Matrix4::from(Matrix3)
Matrix4From(m) ==
    << <<m[1][1], m[1][2], m[1][3], 0>>,
       <<m[2][1], m[2][2], m[2][3], 0>>,
       <<m[3][1], m[3][2], m[3][3], 0>>,
       <<0, 0, 0, 1>> >>

IsSquare(n) == \E r \in 0..n : r * r = n

\* f64::sqrt on a perfect square.
Sqrt(n) == CHOOSE r \in 0..n : r * r = n

\* The deltas on which translation is computed without rounding.
Representable(pos) ==
    /\ IsSquare(1 + pos[1] * pos[1] + pos[2] * pos[2])
    /\ LET w == Sqrt(1 + pos[1] * pos[1] + pos[2] * pos[2])
       IN  /\ (pos[1] * pos[1]) % (w + 1) = 0
           /\ (pos[1] * pos[2]) % (w + 1) = 0
           /\ (pos[2] * pos[2]) % (w + 1) = 0

\* translation with the last column extended by 1 in place of w.
translation_flatLastColumn(pos) ==
    LET x == pos[1]
        y == pos[2]
        w == Sqrt(1 + x * x + y * y)
    IN  << <<(x * x) \div (w + 1) + 1, (y * x) \div (w + 1), x>>,
           <<(x * y) \div (w + 1), (y * y) \div (w + 1) + 1, y>>,
           <<x, y, 1>> >>

\* translation(pos): with col = (pos / (w + 1)).extend(1), the columns are
\* col * pos.x + unit_x, col * pos.y + unit_y and pos.extend(w).
translation(pos) ==
    LET x == pos[1]
        y == pos[2]
        w == Sqrt(1 + x * x + y * y)
    IN  << <<(x * x) \div (w + 1) + 1, (y * x) \div (w + 1), x>>,
           <<(x * y) \div (w + 1), (y * y) \div (w + 1) + 1, y>>,
           <<x, y, w>> >>

-----------------------------------------------------------------------------
(* The camera of src/src/camera.rs and the surface size it reads.          *)

RECURSIVE GCD(_, _)
GCD(a, b) == IF b = 0 THEN a ELSE GCD(b, a % b)

\* The quotient n / d as a fraction in lowest terms, d > 0.
Rat(n, d) ==
    LET g == GCD(IF n < 0 THEN -n ELSE n, d)
    IN  <<n \div g, d \div g>>

\* CameraTracker::ortho(aspect), aspect a fraction; the entries are fractions.
Ortho(aspect) ==
    << <<Rat(aspect[2], aspect[1]), Rat(0, 1), Rat(0, 1), Rat(0, 1)>>,
       <<Rat(0, 1), Rat(1, 1), Rat(0, 1), Rat(0, 1)>>,
       <<Rat(0, 1), Rat(0, 1), Rat(-1, 2), Rat(0, 1)>>,
       <<Rat(0, 1), Rat(0, 1), Rat(1, 2), Rat(1, 1)>> >>

\* Pointer positions and surface sizes, in pixels.
Positions == {<<2 * a, 2 * b>> : a \in 0..MaxCell, b \in 0..MaxCell}
Sizes == {<<4, 2>>, <<4, 4>>, <<2, 4>>}
Aspects == {Rat(sz[1], sz[2]) : sz \in Sizes}

\* delta * 2.0 / surface.size().y
Scaled(diff, height) == <<(diff[1] * 2) \div height, (diff[2] * 2) \div height>>

\* The drags whose scaled delta is computed without rounding.
Exact(diff, height) ==
    /\ (diff[1] * 2) % height = 0
    /\ (diff[2] * 2) % height = 0
    /\ Representable(Scaled(diff, height))

\* CameraController::update: Option::replace(pos).map(|old| pos - old)
ControllerUpdate(val, pos) ==
    [value |-> <<pos>>,
     delta |-> IF val = <<>> THEN <<>> ELSE << <<pos[1] - val[1][1], pos[2] - val[1][2]>> >>]

\* Translate with the factors the other way round.
Translate_rightMultiply(t, delta) == Mul4(t, Matrix4From(translation(delta)))

\* CameraTracker::translate
Translate(t, delta) == Mul4(Matrix4From(translation(delta)), t)

\* Camera::update_delta(queue, surface, pos)
UpdateDelta(pos) ==
    LET u == ControllerUpdate(value, pos)
    IN  /\ Len(drags) < MaxDrags
        /\ u.delta # <<>> => Exact(u.delta[1], config[2])
        /\ value' = u.value
        /\ IF u.delta # <<>>
           THEN /\ transform' = Translate(transform, Scaled(u.delta[1], config[2]))
                /\ drags' = Append(drags, [diff |-> u.delta[1], height |-> config[2]])
           ELSE UNCHANGED <<transform, drags>>
        /\ UNCHANGED <<viewport, config>>
        /\ UNCHANGED <<tilingVars, otherVars>>

\* ResetDelta resetting the pan as well.
ResetDelta_clearsTransform ==
    /\ value' = <<>>
    /\ transform' = Identity4
    /\ UNCHANGED <<viewport, config, drags>>
    /\ UNCHANGED <<tilingVars, otherVars>>

\* Camera::reset_delta
ResetDelta ==
    /\ value' = <<>>
    /\ UNCHANGED <<transform, viewport, config, drags>>
    /\ UNCHANGED <<tilingVars, otherVars>>

\* Camera::update_viewport(queue, aspect_ratio)
UpdateViewport(aspect) ==
    /\ viewport' = Ortho(aspect)
    /\ UNCHANGED <<value, transform, config, drags>>
    /\ UNCHANGED <<tilingVars, otherVars>>

\* Surface::resize(state, size)
Resize(size) ==
    /\ config' = size
    /\ UNCHANGED <<value, transform, viewport, drags>>
    /\ UNCHANGED <<tilingVars, otherVars>>

ColorCounts == 0..MaxColors

\* The steps of a running generate call.
LayerStep ==
    \/ SideSkipped
    \/ SideLookupPanics
    \/ SideNoNeighbor
    \/ SideRecurse
    \/ LayerReturn

\* TilingGenerator::new(s) for one of the texts, the camera left as created.
\* Where v + 1 overflows, new either panics or yields the table with the sum
\* wrapped.
InitGen ==
    /\ text \in Texts
    /\ \/ /\ data = NewData(text)
          /\ pc = "idle"
          /\ fault = "none"
       \/ /\ Overflows(text)
          /\ data = <<>>
          /\ pc = "panic"
          /\ fault = "overflow"
    /\ depth = 0
    /\ ncolors = 0
    /\ stack = <<>>
    /\ emitted = <<>>
    /\ vertex = 0
    /\ index = <<>>
    /\ prev = <<>>
    /\ value = <<>>
    /\ transform = Identity4
    /\ viewport = Ortho(Rat(4, 4))
    /\ config = <<4, 4>>
    /\ drags = <<>>
    /\ applied = <<>>
    /\ product = Identity3
    /\ undone = <<>>
    /\ variant = "plain"
    /\ track = FALSE
    /\ moves = <<>>
    /\ ret = <<>>
    /\ checked = TRUE
    /\ ups = 0
    /\ downs = 0
    /\ holder = 0
    /\ tpc = [t \in Threads |-> "idle"]
    /\ tlocal = [t \in Threads |-> NoLocal]
    /\ written = {}
    /\ seen = <<>>

NextGen ==
    \/ \E dep \in 0..MaxDepth, nc \in ColorCounts : Generate(dep, nc)
    \/ SideSkipped
    \/ SideLookupPanics
    \/ SideNoNeighbor
    \/ SideRecurse
    \/ LayerReturn

SpecGen == InitGen /\ [][NextGen]_vars

\* generate is synchronous and single-threaded: once called, its steps run.
FairSpecGen == SpecGen /\ WF_vars(LayerStep)

\* Surface::new for a window of one of the sizes and Camera::new(device,
\* layout, aspect_ratio) with its aspect ratio, beside a generator that stays idle.
InitCam ==
    /\ text = TextAllEmpty
    /\ data = NewData(TextAllEmpty)
    /\ pc = "idle"
    /\ fault = "none"
    /\ depth = 0
    /\ ncolors = 0
    /\ stack = <<>>
    /\ emitted = <<>>
    /\ vertex = 0
    /\ index = <<>>
    /\ prev = <<>>
    /\ value = <<>>
    /\ transform = Identity4
    /\ config \in Sizes
    /\ viewport = Ortho(Rat(config[1], config[2]))
    /\ drags = <<>>
    /\ applied = <<>>
    /\ product = Identity3
    /\ undone = <<>>
    /\ variant = "plain"
    /\ track = FALSE
    /\ moves = <<>>
    /\ ret = <<>>
    /\ checked = TRUE
    /\ ups = 0
    /\ downs = 0
    /\ holder = 0
    /\ tpc = [t \in Threads |-> "idle"]
    /\ tlocal = [t \in Threads |-> NoLocal]
    /\ written = {}
    /\ seen = <<>>

NextCam ==
    \/ \E pos \in Positions : UpdateDelta(pos)
    \/ ResetDelta
    \/ \E a \in Aspects : UpdateViewport(a)
    \/ \E size \in Sizes : Resize(size)

SpecCam == InitCam /\ [][NextCam]_vars

-----------------------------------------------------------------------------
(* translation of src/src/lib.rs applied to deltas and to their negations. *)

\* The deltas within the bound on which translation is computed exactly.
Deltas ==
    {d \in (-MaxCoord..MaxCoord) \X (-MaxCoord..MaxCoord) : Representable(d)}

\* -d of a Vector2
Neg(d) == <<-d[1], -d[2]>>

\* m = translation(d) is computed and multiplied onto the product.
ApplyTranslation(d) ==
    /\ Len(applied) < MaxNest
    /\ applied' = Append(applied, [d |-> d, m |-> translation(d)])
    /\ product' = Mul3(product, translation(d))
    /\ UNCHANGED undone
    /\ UNCHANGED <<tilingVars, cameraVars, controlVars, loopVars, surfaceVars>>

\* translation(-d) of the newest delta d is multiplied onto the product.
ApplyInverse ==
    /\ applied # <<>>
    /\ product' = Mul3(product, translation(Neg(applied[Len(applied)].d)))
    /\ undone' = <<applied[Len(applied)].d>>
    /\ applied' = SubSeq(applied, 1, Len(applied) - 1)
    /\ UNCHANGED <<tilingVars, cameraVars, controlVars, loopVars, surfaceVars>>

\* No translation applied yet, beside an idle generator and camera.
InitNum ==
    /\ text = TextAllEmpty
    /\ data = NewData(TextAllEmpty)
    /\ pc = "idle"
    /\ fault = "none"
    /\ depth = 0
    /\ ncolors = 0
    /\ stack = <<>>
    /\ emitted = <<>>
    /\ vertex = 0
    /\ index = <<>>
    /\ prev = <<>>
    /\ value = <<>>
    /\ transform = Identity4
    /\ viewport = Ortho(Rat(4, 4))
    /\ config = <<4, 4>>
    /\ drags = <<>>
    /\ applied = <<>>
    /\ product = Identity3
    /\ undone = <<>>
    /\ variant = "plain"
    /\ track = FALSE
    /\ moves = <<>>
    /\ ret = <<>>
    /\ checked = TRUE
    /\ ups = 0
    /\ downs = 0
    /\ holder = 0
    /\ tpc = [t \in Threads |-> "idle"]
    /\ tlocal = [t \in Threads |-> NoLocal]
    /\ written = {}
    /\ seen = <<>>

NextNum ==
    \/ \E d \in Deltas : ApplyTranslation(d)
    \/ ApplyInverse

SpecNum == InitNum /\ [][NextNum]_vars

-----------------------------------------------------------------------------
(* The two CameraControllers: src/src/camera.rs (update, reset) and        *)
(* src/src/lib.rs (update, set_track).                                     *)

\* CameraController::update of lib.rs: a position is stored, and a delta
\* returned, only while track is set.
TrackedUpdate(trk, val, pos) ==
    IF val # <<>> /\ trk
    THEN [value |-> <<pos>>, delta |-> << <<pos[1] - val[1][1], pos[2] - val[1][2]>> >>]
    ELSE IF val = <<>> /\ trk
    THEN [value |-> <<pos>>, delta |-> <<>>]
    ELSE [value |-> val, delta |-> <<>>]

\* SetTrackValue leaving the stored position in place.
SetTrackValue_keepsValue(trk, val) == val

\* The value field after set_track(trk).
SetTrackValue(trk, val) == IF ~trk THEN <<>> ELSE val

\* update(pos) on either controller.
CtlUpdate(pos) ==
    LET u == IF variant = "plain"
             THEN ControllerUpdate(value, pos)
             ELSE TrackedUpdate(track, value, pos)
    IN  /\ Len(moves) < MaxMoves
        /\ value' = u.value
        /\ ret' = u.delta
        /\ moves' = IF variant = "plain" \/ track THEN Append(moves, pos) ELSE moves
        /\ UNCHANGED <<variant, track>>
        /\ UNCHANGED <<transform, viewport, config, drags>>
        /\ UNCHANGED <<tilingVars, numVars, loopVars, surfaceVars>>

\* reset() of the controller of camera.rs
CtlReset ==
    /\ variant = "plain"
    /\ value' = <<>>
    /\ ret' = <<>>
    /\ moves' = <<>>
    /\ UNCHANGED <<variant, track>>
    /\ UNCHANGED <<transform, viewport, config, drags>>
    /\ UNCHANGED <<tilingVars, numVars, loopVars, surfaceVars>>

\* set_track(trk) of the controller of lib.rs
SetTrack(trk) ==
    /\ variant = "tracking"
    /\ track' = trk
    /\ value' = SetTrackValue(trk, value)
    /\ ret' = <<>>
    /\ moves' = IF ~trk THEN <<>> ELSE moves
    /\ UNCHANGED variant
    /\ UNCHANGED <<transform, viewport, config, drags>>
    /\ UNCHANGED <<tilingVars, numVars, loopVars, surfaceVars>>

\* CameraController::new() of either file, beside an idle generator.
InitCtl ==
    /\ text = TextAllEmpty
    /\ data = NewData(TextAllEmpty)
    /\ pc = "idle"
    /\ fault = "none"
    /\ depth = 0
    /\ ncolors = 0
    /\ stack = <<>>
    /\ emitted = <<>>
    /\ vertex = 0
    /\ index = <<>>
    /\ prev = <<>>
    /\ value = <<>>
    /\ transform = Identity4
    /\ viewport = Ortho(Rat(4, 4))
    /\ config = <<4, 4>>
    /\ drags = <<>>
    /\ applied = <<>>
    /\ product = Identity3
    /\ undone = <<>>
    /\ variant \in {"plain", "tracking"}
    /\ track = FALSE
    /\ moves = <<>>
    /\ ret = <<>>
    /\ checked = TRUE
    /\ ups = 0
    /\ downs = 0
    /\ holder = 0
    /\ tpc = [t \in Threads |-> "idle"]
    /\ tlocal = [t \in Threads |-> NoLocal]
    /\ written = {}
    /\ seen = <<>>

NextCtl ==
    \/ \E pos \in Positions : CtlUpdate(pos)
    \/ CtlReset
    \/ \E trk \in BOOLEAN : SetTrack(trk)

SpecCtl == InitCtl /\ [][NextCtl]_vars

-----------------------------------------------------------------------------
(* The depth keys of the event loop of src/src/lib.rs.                     *)
(*                                                                         *)
(* depth is a usize.  Its values are kept modulo 2^64 (2^32 on wasm32) by  *)
(* the representative nearest 0: -1 stands for usize::MAX, so that + 1 and *)
(* - 1 and the comparison with 0 are those of the wrapping arithmetic.     *)

\* The definition files the loop is run on: their traversal is finite at
\* every depth.
LoopTexts == {TextAllEmpty, TextLeaf, TextBeyond}

\* A depth that is the result of a wrapped subtraction.
Wrapped(dep) == dep < 0

\* let mut mesh = Mesh::new(&device, tiling.generate(depth))
Startup ==
    /\ pc = "idle"
    /\ GenerateCall(depth, MaxColors)
    /\ UNCHANGED <<cameraVars, numVars, controlVars, loopVars, surfaceVars>>

\* Key 103 pressed: depth += 1, then generate(depth).
KeyUp ==
    /\ pc = "done"
    /\ ups + downs < MaxKeys
    /\ GenerateCall(depth + 1, MaxColors)
    /\ ups' = ups + 1
    /\ UNCHANGED <<checked, downs>>
    /\ UNCHANGED <<cameraVars, numVars, controlVars, surfaceVars>>

\* Key 108 pressed: depth -= 1, then generate(depth).  At depth 0 the
\* subtraction panics where overflow is checked and wraps where it is not.
KeyDown ==
    /\ pc = "done"
    /\ ups + downs < MaxKeys
    /\ downs' = downs + 1
    /\ IF depth = 0 /\ checked
       THEN /\ pc' = "panic"
            /\ fault' = "underflow"
            /\ UNCHANGED <<text, data, depth, ncolors, stack, emitted, vertex,
                           index, prev>>
       ELSE GenerateCall(depth - 1, MaxColors)
    /\ UNCHANGED <<checked, ups>>
    /\ UNCHANGED <<cameraVars, numVars, controlVars, surfaceVars>>

\* Key 19 pressed: the definition file is read again (it has not changed, or
\* cannot be read and unwrap panics), then generate(depth).
KeyReload ==
    /\ pc = "done"
    /\ \/ GenerateCall(depth, MaxColors)
       \/ /\ pc' = "panic"
          /\ fault' = "io"
          /\ UNCHANGED <<text, data, depth, ncolors, stack, emitted, vertex,
                         index, prev>>
    /\ UNCHANGED <<cameraVars, numVars, controlVars, loopVars, surfaceVars>>

\* run() up to the first generate: depth is 5 and the definition file has
\* been read.
InitLoop ==
    /\ text \in LoopTexts
    /\ data = NewData(text)
    /\ pc = "idle"
    /\ fault = "none"
    /\ depth = InitialDepth
    /\ ncolors = 0
    /\ stack = <<>>
    /\ emitted = <<>>
    /\ vertex = 0
    /\ index = <<>>
    /\ prev = <<>>
    /\ value = <<>>
    /\ transform = Identity4
    /\ viewport = Ortho(Rat(4, 4))
    /\ config = <<4, 4>>
    /\ drags = <<>>
    /\ applied = <<>>
    /\ product = Identity3
    /\ undone = <<>>
    /\ variant = "tracking"
    /\ track = FALSE
    /\ moves = <<>>
    /\ ret = <<>>
    /\ checked \in BOOLEAN
    /\ ups = 0
    /\ downs = 0
    /\ holder = 0
    /\ tpc = [t \in Threads |-> "idle"]
    /\ tlocal = [t \in Threads |-> NoLocal]
    /\ written = {}
    /\ seen = <<>>

NextLoop ==
    \/ Startup
    \/ KeyUp
    \/ KeyDown
    \/ KeyReload
    \/ SideSkipped
    \/ SideLookupPanics
    \/ SideNoNeighbor
    \/ SideRecurse
    \/ LayerReturn

SpecLoop == InitLoop /\ [][NextLoop]_vars

-----------------------------------------------------------------------------
(* The config mutex of src/src/surface.rs: resize, size and aspect_ratio   *)
(* called from several threads, a step per lock, field access and return.  *)

\* CanLock with the mutex ignored.
CanLock_always(h) == TRUE

\* self.config.lock() returns once no thread holds the mutex.
CanLock(h) == h = 0

\* resize(state, size): let mut config = self.config.lock()
ResizeLock(t, size) ==
    /\ tpc[t] = "idle"
    /\ CanLock(holder)
    /\ holder' = t
    /\ tpc' = [tpc EXCEPT ![t] = "resize_locked"]
    /\ tlocal' = [tlocal EXCEPT ![t] = [NoLocal EXCEPT !.op = "resize", !.size = size]]
    /\ written' = written \cup {size}
    /\ UNCHANGED <<config, seen>>
    /\ UNCHANGED <<value, transform, viewport, drags>>
    /\ UNCHANGED <<tilingVars, numVars, controlVars, loopVars>>

\* config.width = size.x
ResizeWidth(t) ==
    /\ tpc[t] = "resize_locked"
    /\ config' = <<tlocal[t].size[1], config[2]>>
    /\ tpc' = [tpc EXCEPT ![t] = "resize_width"]
    /\ UNCHANGED <<holder, tlocal, written, seen>>
    /\ UNCHANGED <<value, transform, viewport, drags>>
    /\ UNCHANGED <<tilingVars, numVars, controlVars, loopVars>>

\* config.height = size.y
ResizeHeight(t) ==
    /\ tpc[t] = "resize_width"
    /\ config' = <<config[1], tlocal[t].size[2]>>
    /\ tpc' = [tpc EXCEPT ![t] = "resize_height"]
    /\ UNCHANGED <<holder, tlocal, written, seen>>
    /\ UNCHANGED <<value, transform, viewport, drags>>
    /\ UNCHANGED <<tilingVars, numVars, controlVars, loopVars>>

\* self.surface.configure(&state.device, &config), then the guard is dropped.
ResizeReturn(t) ==
    /\ tpc[t] = "resize_height"
    /\ holder' = 0
    /\ tpc' = [tpc EXCEPT ![t] = "idle"]
    /\ tlocal' = [tlocal EXCEPT ![t] = NoLocal]
    /\ UNCHANGED <<config, written, seen>>
    /\ UNCHANGED <<value, transform, viewport, drags>>
    /\ UNCHANGED <<tilingVars, numVars, controlVars, loopVars>>

\* size() or aspect_ratio(): let config = self.config.lock()
ReadLock(t, op) ==
    /\ tpc[t] = "idle"
    /\ CanLock(holder)
    /\ holder' = t
    /\ tpc' = [tpc EXCEPT ![t] = "read_locked"]
    /\ tlocal' = [tlocal EXCEPT ![t] = [NoLocal EXCEPT !.op = op]]
    /\ UNCHANGED <<config, written, seen>>
    /\ UNCHANGED <<value, transform, viewport, drags>>
    /\ UNCHANGED <<tilingVars, numVars, controlVars, loopVars>>

\* config.width as f64
ReadWidth(t) ==
    /\ tpc[t] = "read_locked"
    /\ tlocal' = [tlocal EXCEPT ![t].w = config[1]]
    /\ tpc' = [tpc EXCEPT ![t] = "read_width"]
    /\ UNCHANGED <<config, holder, written, seen>>
    /\ UNCHANGED <<value, transform, viewport, drags>>
    /\ UNCHANGED <<tilingVars, numVars, controlVars, loopVars>>

\* config.height as f64
ReadHeight(t) ==
    /\ tpc[t] = "read_width"
    /\ tlocal' = [tlocal EXCEPT ![t].h = config[2]]
    /\ tpc' = [tpc EXCEPT ![t] = "read_height"]
    /\ UNCHANGED <<config, holder, written, seen>>
    /\ UNCHANGED <<value, transform, viewport, drags>>
    /\ UNCHANGED <<tilingVars, numVars, controlVars, loopVars>>

\* The value size() or aspect_ratio() returns for the fields read.
ReadResult(loc) ==
    IF loc.op = "size" THEN <<loc.w, loc.h>> ELSE Rat(loc.w, loc.h)

\* The call returns its value and the guard is dropped.
ReadReturn(t) ==
    /\ tpc[t] = "read_height"
    /\ seen' = <<[op |-> tlocal[t].op, w |-> tlocal[t].w, h |-> tlocal[t].h,
                  out |-> ReadResult(tlocal[t])]>>
    /\ holder' = 0
    /\ tpc' = [tpc EXCEPT ![t] = "idle"]
    /\ tlocal' = [tlocal EXCEPT ![t] = NoLocal]
    /\ UNCHANGED <<config, written>>
    /\ UNCHANGED <<value, transform, viewport, drags>>
    /\ UNCHANGED <<tilingVars, numVars, controlVars, loopVars>>

\* Surface::new for a window of one of the sizes, no call in progress.
InitSurf ==
    /\ text = TextAllEmpty
    /\ data = NewData(TextAllEmpty)
    /\ pc = "idle"
    /\ fault = "none"
    /\ depth = 0
    /\ ncolors = 0
    /\ stack = <<>>
    /\ emitted = <<>>
    /\ vertex = 0
    /\ index = <<>>
    /\ prev = <<>>
    /\ value = <<>>
    /\ transform = Identity4
    /\ config \in Sizes
    /\ viewport = Ortho(Rat(config[1], config[2]))
    /\ drags = <<>>
    /\ applied = <<>>
    /\ product = Identity3
    /\ undone = <<>>
    /\ variant = "plain"
    /\ track = FALSE
    /\ moves = <<>>
    /\ ret = <<>>
    /\ checked = TRUE
    /\ ups = 0
    /\ downs = 0
    /\ holder = 0
    /\ tpc = [t \in Threads |-> "idle"]
    /\ tlocal = [t \in Threads |-> NoLocal]
    /\ written = {config}
    /\ seen = <<>>

NextSurf ==
    \/ \E t \in Threads, size \in Sizes : ResizeLock(t, size)
    \/ \E t \in Threads : ResizeWidth(t)
    \/ \E t \in Threads : ResizeHeight(t)
    \/ \E t \in Threads : ResizeReturn(t)
    \/ \E t \in Threads, op \in {"size", "aspect_ratio"} : ReadLock(t, op)
    \/ \E t \in Threads : ReadWidth(t)
    \/ \E t \in Threads : ReadHeight(t)
    \/ \E t \in Threads : ReadReturn(t)

SpecSurf == InitSurf /\ [][NextSurf]_vars

-----------------------------------------------------------------------------
(* Properties of the fragment table and the traversal.                     *)

Root == [id |-> 0, tr |-> One]

\* A table the traversal can walk: p entries per fragment, every neighbor in
\* the table.
WellFormedTable(d) ==
    /\ Len(d) >= 1
    /\ \A k \in 1..Len(d) :
        /\ Len(d[k].branch) = Sides
        /\ \A j \in 1..Sides : d[k].branch[j][1] <= Len(d)

\* C1: no definition text and depth makes the traversal index past the end
\* of a branch list or of the fragment table.
C1_NoOutOfRangeAccess == fault \notin {"fragment", "branch"}

\* The format of a branch token: <neighbor-id> or
\* <neighbor-id>+<rotation-offset>, the id a number or empty, the offset a
\* number.
WellFormedToken(v) ==
    LET k == IndexOf(v, "+")
        a == Trim(SplitOnce(v)[1])
        b == Trim(SplitOnce(v)[2])
    IN  /\ a = "" \/ ParseU16(a) # <<>>
        /\ k = 0 \/ ParseU16(b) # <<>>

WellFormedLine(l) ==
    LET tok == Split(l, ",")
    IN  \A k \in 1..Len(tok) : WellFormedToken(tok[k])

WellFormedLines(s) == SelectSeq(Lines(s), WellFormedLine)

\* C2: a line that fails to parse is skipped, so the fragment table holds
\* exactly the well-formed lines of the text, in their order.
C2_MalformedLinesSkipped ==
    pc # "panic" =>
        /\ Len(data) = Len(WellFormedLines(text))
        /\ \A k \in 1..Len(data) : <<data[k]>> = FragmentParse(WellFormedLines(text)[k])

\* C3 as stated: a neighbor id written 0 denotes "no neighbor", so for the
\* text 0,0,0,0 generate(3) emits one tile, as generate(0) does.
C3_ZeroMeansNoNeighbor ==
    (text = TextAllZero /\ pc = "done" /\ depth = 3) => Len(emitted) = 1

\* C3 amended: an empty neighbor id denotes "no neighbor" and a written 0
\* names fragment 0: for the text ,,, generate emits the root alone at every
\* depth, and for 0,0,0,0 it emits more than the root at every depth above 0.
C3_EmptyMeansNoNeighbor ==
    /\ (text = TextAllEmpty /\ pc = "done") => emitted = <<Root>>
    /\ (text = TextAllZero /\ pc = "done" /\ depth > 0) => Len(emitted) > 1

C3_Witness == text = TextAllEmpty /\ pc = "done" /\ depth = 3

\* C4: every instance other than the root skips side 2, whatever its
\* fragment: no call of layer below the first one looks side 2 up.
C4_NonRootSkipsParentSide ==
    \A k \in 2..Len(stack) : ParentSide \notin stack[k].looked

RECURSIVE Pow(_, _)
Pow(b, n) == IF n = 0 THEN 1 ELSE b * Pow(b, n - 1)

RECURSIVE LevelSum(_, _, _)
\* 1 + first + first * ratio + ... + first * ratio^(n - 1)
LevelSum(first, ratio, n) ==
    IF n = 0 THEN 1 ELSE LevelSum(first, ratio, n - 1) + first * Pow(ratio, n - 1)

\* C5 as stated: with type 1 branching only to itself, generate(depth) emits
\* 1 + 3 + 3*2 + 3*2^2 + ... tiles, one term per level.
C5_CountThreeTimesTwo ==
    (text = TextSelfRef /\ pc = "done") => Len(emitted) = LevelSum(3, 2, depth)

\* C5 amended: for the table 1,1,1,1 / 1,1,1,1 generate(depth) emits
\* 1 + 4 + 4*3 + 4*3^2 + ... tiles: the root recurses across its 4 sides and
\* every other instance across 3.
C5_CountFourTimesThree ==
    (text = TextSelfRef /\ pc = "done") => Len(emitted) = LevelSum(4, 3, depth)

C5_Witness == text = TextSelfRef /\ pc = "done" /\ depth = 3 /\ Len(emitted) = 53

\* C6: generate(0) emits the root alone, fragment 0 at the identity
\* placement, whatever the fragment table holds (the one other outcome is the
\* panic of colors[0] on an empty color slice).
C6_DepthZeroEmitsRoot ==
    (depth = 0 /\ pc # "idle" /\ fault \notin {"colors", "overflow"}) =>
        /\ pc = "done"
        /\ emitted = <<Root>>

C6_Witness == depth = 0 /\ pc = "done" /\ data = <<>> /\ emitted = <<Root>>

\* The k-th nested call of layer holds remaining depth depth - (k - 1), never
\* 0 while it iterates, so at most depth calls iterate at once (one more, a
\* leaf, may be emitting).
StackShape ==
    /\ Len(stack) <= depth
    /\ \A k \in 1..Len(stack) :
        /\ stack[k].layers = depth - (k - 1)
        /\ stack[k].layers >= 1

\* C7: every recursive call of layer gets a remaining depth one less than
\* its caller's and none below 0, the nesting never exceeds depth + 1, and
\* on a well-formed table generate returns.
C7_Terminates ==
    /\ []StackShape
    /\ (pc = "run" /\ WellFormedTable(data) /\ ncolors >= Len(data)) ~> (pc = "done")

C7_Witness ==
    /\ pc = "run"
    /\ WellFormedTable(data)
    /\ ncolors >= Len(data)
    /\ depth = 3
    /\ Len(stack) = 3

\* C8: the tiles of generate(d) are among those of generate(d + 1), so the
\* count does not decrease with depth.
C8_MonotoneInDepth ==
    (pc = "done" /\ prev # <<>> /\ prev[1].depth + 1 = depth) =>
        /\ prev[1].count <= Len(emitted)
        /\ prev[1].tiles \subseteq Tiles(emitted)

C8_Witness ==
    /\ pc = "done"
    /\ prev # <<>>
    /\ prev[1].depth + 1 = depth
    /\ WellFormedTable(data)
    /\ prev[1].count < Len(emitted)

-----------------------------------------------------------------------------
(* Properties of the camera.                                               *)

\* translate(dn) * ... * translate(d1) for the drags ds = d1 .. dn, each
\* delta the pointer delta times 2 / height.
RECURSIVE DragProduct(_)
DragProduct(ds) ==
    IF ds = <<>> THEN Identity3
    ELSE LET n == Len(ds)
         IN  Mul3(translation(Scaled(ds[n].diff, ds[n].height)),
                  DragProduct(SubSeq(ds, 1, n - 1)))

\* C9: after the drag deltas d1 .. dn the camera transform is
\* translate(dn) * ... * translate(d1), the newest factor leftmost.
C9_NewestDragLeftmost == transform = Matrix4From(DragProduct(drags))

\* Two drags in directions that do not commute, the second at another height.
C9_Witness ==
    /\ Len(drags) = 2
    /\ drags[1].height # drags[2].height
    /\ Mul3(translation(Scaled(drags[1].diff, drags[1].height)),
            translation(Scaled(drags[2].diff, drags[2].height)))
         # Mul3(translation(Scaled(drags[2].diff, drags[2].height)),
                translation(Scaled(drags[1].diff, drags[1].height)))

\* C10: the transform changes only in a drag step that produces a delta, the
\* viewport only in update_viewport; a step that clears the tracked position
\* leaves transform, viewport and surface size alone, and a step that changes
\* the viewport leaves transform and tracked position alone.
C10_CameraFrames ==
    [][/\ transform' # transform =>
            /\ value # <<>>
            /\ value' # <<>>
            /\ drags' # drags
            /\ viewport' = viewport
       /\ (value # <<>> /\ value' = <<>>) =>
            /\ transform' = transform
            /\ viewport' = viewport
            /\ config' = config
       /\ viewport' # viewport =>
            /\ transform' = transform
            /\ value' = value]_vars

\* A reset after a drag that moved the camera, under a changed viewport.
C10_Witness ==
    /\ value = <<>>
    /\ transform # Identity4
    /\ viewport # Ortho(Rat(config[1], config[2]))

-----------------------------------------------------------------------------
(* Properties of translation.                                              *)

\* C11: translation(d) * translation(-d) is the identity matrix, so that a
\* product of translations each followed by its inverse, innermost first, is
\* the identity again, and translation((0,0)) is exactly the identity.
C11_InverseTranslation ==
    /\ applied = <<>> => product = Identity3
    /\ \A k \in 1..Len(applied) :
        /\ Mul3(applied[k].m, translation(Neg(applied[k].d))) = Identity3
        /\ applied[k].d = <<0, 0>> => applied[k].m = Identity3

\* A translation other than the identity has been applied and undone.
C11_Witness ==
    /\ applied = <<>>
    /\ undone = << <<2, -2>> >>
    /\ product = Identity3

-----------------------------------------------------------------------------
(* Properties of the step from an instance to its children.                *)

\* The fragment and incoming rotation of the instance at placement tr, read
\* off the table side by side from the root.
RECURSIVE Entered(_)
Entered(tr) ==
    IF tr = <<>>
    THEN [id |-> 0, rot |-> 0]
    ELSE LET p == Entered(SubSeq(tr, 1, Len(tr) - 1))
             e == Branch(data, p.id, (tr[Len(tr)] + p.rot) % Sides)
         IN  [id |-> e[1] - 1, rot |-> e[2]]

\* Placement a comes before placement b in a traversal that emits an
\* instance before its children and visits the sides in increasing order.
RECURSIVE Before(_, _)
Before(a, b) ==
    IF a = <<>> THEN b # <<>>
    ELSE IF b = <<>> THEN FALSE
    ELSE IF a[1] # b[1] THEN a[1] < b[1]
    ELSE Before(Tail(a), Tail(b))

\* Placement a is placement b or the placement of one of its ancestors.
IsPrefix(a, b) == Len(a) <= Len(b) /\ SubSeq(b, 1, Len(a)) = a

\* C12: the child across a non-skipped side i of an instance of fragment f
\* entered with rotation r, placement T and remaining depth > 0 is taken
\* from (c, o) = table[f].branch[(i + r) mod 4]: c is not 0 and the child is
\* entered with fragment c - 1, rotation o, remaining depth one less and
\* placement T * side i; an instance is emitted before its children and the
\* sides are visited in increasing order (the first emitted instance is the
\* root, each later one comes Before the next, and its parent is the
\* instance emitted just before it or an ancestor of that one).
C12_ChildFromEntry ==
    /\ \A k \in 1..Len(emitted) :
        LET tr == emitted[k].tr
            up == SubSeq(tr, 1, Len(tr) - 1)
            p == Entered(up)
            e == Branch(data, p.id, (tr[Len(tr)] + p.rot) % Sides)
        IN  /\ Len(tr) <= depth
            /\ IF k = 1
               THEN tr = <<>> /\ emitted[k].id = 0
               ELSE /\ tr # <<>>
                    /\ Considered(p.id, tr[Len(tr)])
                    /\ e[1] # 0
                    /\ emitted[k].id = e[1] - 1
                    /\ IsPrefix(up, emitted[k - 1].tr)
                    /\ Before(emitted[k - 1].tr, tr)
    /\ \A k \in 1..Len(stack) :
        /\ stack[k].id = Entered(stack[k].tr).id
        /\ stack[k].rot = Entered(stack[k].tr).rot
        /\ stack[k].layers = depth - Len(stack[k].tr)
        /\ stack[k].layers > 0
        /\ k > 1 =>
            /\ stack[k].tr = Compose(stack[k - 1].tr, stack[k - 1].i - 1)
            /\ stack[k].layers = stack[k - 1].layers - 1

\* A finished traversal that entered an instance with a rotation other than
\* 0 and emitted a child of it, and that emitted two children of the root.
C12_Witness ==
    /\ pc = "done"
    /\ \E k \in 1..Len(emitted) :
        /\ Len(emitted[k].tr) = 2
        /\ Entered(SubSeq(emitted[k].tr, 1, 1)).rot # 0
    /\ \E j, k \in 1..Len(emitted) :
        /\ j < k
        /\ Len(emitted[j].tr) = 1
        /\ Len(emitted[k].tr) = 1

-----------------------------------------------------------------------------
(* Properties of the vertex and index output.                              *)

\* The smallest and the largest index of the tile.
TileIndexMin == CHOOSE m \in 0..LastVertex :
    /\ \E t \in 1..Len(TileIndex) : TileIndex[t] = m
    /\ \A t \in 1..Len(TileIndex) : TileIndex[t] >= m
TileIndexMax == CHOOSE m \in 0..LastVertex :
    /\ \E t \in 1..Len(TileIndex) : TileIndex[t] = m
    /\ \A t \in 1..Len(TileIndex) : TileIndex[t] <= m

\* C13: after n emitted tile instances the output holds 40 * n vertices and
\* 120 * n indices, and the indices of the k-th tile (k from 0) lie in
\* [40k, 40k + 39], below the length of the vertex sequence.
C13_IndicesWithinOwnBlock ==
    /\ vertex = 40 * Len(emitted)
    /\ Len(index) = Len(emitted)
    /\ Len(TileIndex) = 120
    /\ \A k \in 1..Len(index) :
        /\ Offset(index[k], TileIndexMin) >= 40 * (k - 1)
        /\ Offset(index[k], TileIndexMax) <= 40 * (k - 1) + 39
        /\ Offset(index[k], TileIndexMax) < vertex
    /\ \A t \in 1..Len(TileIndex) :
        /\ TileIndex[t] >= 0
        /\ TileIndex[t] < TileVertices

\* A finished generate that emitted several tiles, the last block offset by
\* the vertices of the tiles before it.
C13_Witness ==
    /\ pc = "done"
    /\ Len(emitted) = 5
    /\ IndexBlock(index, 5)[3] = 199

-----------------------------------------------------------------------------
(* Properties of the camera controllers.                                   *)

\* C14: update returns a delta only when an earlier update of the same drag
\* has stored a position (and, on the tracking controller, only while
\* tracking is on); the delta is the new position minus the position of the
\* update just before it in that drag, and the first update of a drag
\* returns none; the stored position is that of the newest update of the
\* drag, none before its first.
C14_DeltaWithinOneDrag ==
    /\ ret # <<>> =>
        /\ Len(moves) >= 2
        /\ ret[1] = <<moves[Len(moves)][1] - moves[Len(moves) - 1][1],
                      moves[Len(moves)][2] - moves[Len(moves) - 1][2]>>
        /\ variant = "tracking" => track
    /\ Len(moves) <= 1 => ret = <<>>
    /\ value = IF moves = <<>> THEN <<>> ELSE <<moves[Len(moves)]>>

\* The tracking controller with tracking on: the second update of a drag has
\* returned the delta between two different positions.
C14_Witness ==
    /\ variant = "tracking"
    /\ track
    /\ Len(moves) = 2
    /\ moves[1] # moves[2]
    /\ ret # <<>>

-----------------------------------------------------------------------------
(* Properties of the depth keys.                                           *)

\* C15: after any sequence of depth-increase and depth-decrease key presses
\* from the initial depth 5 the depth is 5 + increases - decreases, and a
\* decrease at depth 0 neither wraps the depth nor aborts the program.
C15_DepthNeverUnderflows ==
    /\ fault # "underflow"
    /\ ~Wrapped(depth)
    /\ depth = InitialDepth + ups - downs

-----------------------------------------------------------------------------
(* Properties of the surface configuration.                                *)

\* C16: with resize, size and aspect_ratio running concurrently, every read
\* returns the width and height written by one and the same resize call (or
\* by Surface::new): a thread inside any of the three holds the mutex, and
\* a width and height that belong to different calls are in the config only
\* while a resize holds it.
C16_ReadsOneResize ==
    /\ seen # <<>> =>
        /\ <<seen[1].w, seen[1].h>> \in written
        /\ seen[1].op = "size" => seen[1].out \in written
        /\ seen[1].op = "aspect_ratio" =>
            seen[1].out \in {Rat(sz[1], sz[2]) : sz \in written}
    /\ \A t \in Threads : tpc[t] # "idle" => holder = t
    /\ holder = 0 => config \in written

\* A read has returned, and a resize that has written its width and not yet
\* its height holds the mutex over a config no call has asked for.
C16_Witness ==
    /\ seen # <<>>
    /\ seen[1].op = "aspect_ratio"
    /\ Cardinality(written) >= 2
    /\ \E t \in Threads : tpc[t] = "resize_width"
    /\ config \notin Sizes

====
